---- MODULE Spec2Model ----
(***************************************************************************)
(* Routing and forwarder selection of glider: the rule router              *)
(* (rule.Proxy), the strategy group (strategy.Proxy) with its forwarders,  *)
(* and the time windows that gate a group.                                 *)
(*                                                                         *)
(* Go strings are sequences of one-character strings; Go indices are       *)
(* 0-based, so s[lo:hi] is Slice(s, lo, hi).                               *)
(***************************************************************************)
EXTENDS Integers, Sequences, FiniteSets, TLC

VARIABLES
    \* rule.Proxy
    domainMap, ipMap, cidrMap, rlast,
    \* strategy.Proxy and its forwarders
    fwdrs, pri, strategy, maxFailures, checkTimeout, forwardTime, rejectTime,
    enabled, failures, latency, avail, priority, index, last,
    \* the strategy string of the configuration, as given to NewProxy
    configured,
    \* the callbacks of the last operation and the failures recorded in a row
    notified, streak, run,
    \* a time window: the string given to Parse, what Parse made of it, the
    \* instant given to Contains and what Contains returned
    twString, tw, twNow, twRet,
    \* the goroutines on a group: the lock p.mu, where each goroutine is, the
    \* forwarder whose handler it runs, the avail a pick saw at its emptiness
    \* test, what the pick returned, and the operations started so far
    mu, pc, arg, seen, ret, ops,
    \* the check loops: config.CheckDisabledOnly, the wait of each loop, and of
    \* each loop the passes made (2 for two or more), whether a pass has run
    \* the probe, and the wait slept at the start of the last pass
    checkDisabledOnly, wait, passes, probed, slept

rvars == <<domainMap, ipMap, cidrMap, rlast>>
gvars == <<fwdrs, pri, strategy, maxFailures, checkTimeout, forwardTime, rejectTime,
           enabled, failures, latency, avail, priority, index, last, configured>>
hvars == <<notified, streak, run>>
\* the variables that only the specifications other than Spec and SpecRule move
tvars == <<twString, tw, twNow, twRet>>
cvars == <<mu, pc, arg, seen, ret, ops>>
kvars == <<checkDisabledOnly, wait, passes, probed, slept>>
ovars == <<hvars, tvars, cvars, kvars>>
vars == <<rvars, gvars, ovars>>

(***************************************************************************)
(* Strings                                                                 *)
(***************************************************************************)
Slice(s, lo, hi) == SubSeq(s, lo + 1, hi)

\* strings.LastIndexByte / strings.IndexByte: 0-based index, -1 when absent
LastIndexByte(s, c) ==
    LET hits == {i \in 1..Len(s) : s[i] = c}
    IN  IF hits = {} THEN -1 ELSE (CHOOSE i \in hits : \A j \in hits : j <= i) - 1

IndexByte(s, c) ==
    LET hits == {i \in 1..Len(s) : s[i] = c}
    IN  IF hits = {} THEN -1 ELSE (CHOOSE i \in hits : \A j \in hits : i <= j) - 1

lowerByte(c) ==
    CASE c = "A" -> "a"
        [] c = "B" -> "b"
        [] c = "C" -> "c"
        [] c = "D" -> "d"
        [] c = "E" -> "e"
        [] c = "F" -> "f"
        [] c = "G" -> "g"
        [] c = "H" -> "h"
        [] c = "I" -> "i"
        [] c = "J" -> "j"
        [] c = "K" -> "k"
        [] c = "L" -> "l"
        [] c = "M" -> "m"
        [] c = "N" -> "n"
        [] c = "O" -> "o"
        [] c = "P" -> "p"
        [] c = "Q" -> "q"
        [] c = "R" -> "r"
        [] c = "S" -> "s"
        [] c = "T" -> "t"
        [] c = "U" -> "u"
        [] c = "V" -> "v"
        [] c = "W" -> "w"
        [] c = "X" -> "x"
        [] c = "Y" -> "y"
        [] c = "Z" -> "z"
        [] OTHER -> c

\* strings.ToLower on ASCII
ToLower(s) == [i \in 1..Len(s) |-> lowerByte(s[i])]

Digits == <<"0", "1", "2", "3", "4", "5", "6", "7", "8", "9">>

isDigit(c) == \E d \in 1..10 : Digits[d] = c

digitVal(c) == (CHOOSE d \in 1..10 : Digits[d] = c) - 1

\* decimal value of a string of digits
RECURSIVE atoi(_)
atoi(s) ==
    IF s = <<>> THEN 0
    ELSE 10 * atoi(Slice(s, 0, Len(s) - 1)) + digitVal(s[Len(s)])

\* decimal rendering, as strconv / net's itoa
RECURSIVE itoa(_)
itoa(n) ==
    IF n < 10 THEN <<Digits[n + 1]>>
    ELSE itoa(n \div 10) \o <<Digits[(n % 10) + 1]>>

allDigits(s) == s # <<>> /\ \A i \in 1..Len(s) : isDigit(s[i])

\* the fields of s between separators c (strings.Split)
RECURSIVE Split(_, _)
Split(s, c) ==
    LET i == IndexByte(s, c)
    IN  IF i = -1 THEN <<s>>
        ELSE <<Slice(s, 0, i)>> \o Split(Slice(s, i + 1, Len(s)), c)

(***************************************************************************)
(* String literals of the configurations and requests                      *)
(***************************************************************************)
d_x_api_example_com_443 == <<"x", ".", "a", "p", "i", ".", "e", "x", "a", "m", "p", "l", "e", ".", "c", "o", "m", ":", "4", "4", "3">>
d_www_example_com_443 == <<"w", "w", "w", ".", "e", "x", "a", "m", "p", "l", "e", ".", "c", "o", "m", ":", "4", "4", "3">>
d_WWW_Example_COM_443 == <<"W", "W", "W", ".", "E", "x", "a", "m", "p", "l", "e", ".", "C", "O", "M", ":", "4", "4", "3">>
d_api_example_com_80 == <<"a", "p", "i", ".", "e", "x", "a", "m", "p", "l", "e", ".", "c", "o", "m", ":", "8", "0">>
d_other_org_80 == <<"o", "t", "h", "e", "r", ".", "o", "r", "g", ":", "8", "0">>
d_localhost_80 == <<"l", "o", "c", "a", "l", "h", "o", "s", "t", ":", "8", "0">>
d_10_1_2_3_22 == <<"1", "0", ".", "1", ".", "2", ".", "3", ":", "2", "2">>
d_010_1_2_3_22 == <<"0", "1", "0", ".", "1", ".", "2", ".", "3", ":", "2", "2">>
d_11_0_0_1_22 == <<"1", "1", ".", "0", ".", "0", ".", "1", ":", "2", "2">>
d_10_9_9_9_80 == <<"1", "0", ".", "9", ".", "9", ".", "9", ":", "8", "0">>
d_example_com == <<"e", "x", "a", "m", "p", "l", "e", ".", "c", "o", "m">>
s_example_com == <<"e", "x", "a", "m", "p", "l", "e", ".", "c", "o", "m">>
s_Example_COM == <<"E", "x", "a", "m", "p", "l", "e", ".", "C", "O", "M">>
s_api_example_com == <<"a", "p", "i", ".", "e", "x", "a", "m", "p", "l", "e", ".", "c", "o", "m">>
s_API_Example_com == <<"A", "P", "I", ".", "E", "x", "a", "m", "p", "l", "e", ".", "c", "o", "m">>
s_inner_example_com == <<"i", "n", "n", "e", "r", ".", "e", "x", "a", "m", "p", "l", "e", ".", "c", "o", "m">>
s_x_api_example_com == <<"x", ".", "a", "p", "i", ".", "e", "x", "a", "m", "p", "l", "e", ".", "c", "o", "m">>
s_www_example_com == <<"w", "w", "w", ".", "e", "x", "a", "m", "p", "l", "e", ".", "c", "o", "m">>
s_other_org == <<"o", "t", "h", "e", "r", ".", "o", "r", "g">>
s_10_1_2_3 == <<"1", "0", ".", "1", ".", "2", ".", "3">>
s_10_9_9_9 == <<"1", "0", ".", "9", ".", "9", ".", "9">>
s_11_0_0_1 == <<"1", "1", ".", "0", ".", "0", ".", "1">>
s_10_0_0_0_8 == <<"1", "0", ".", "0", ".", "0", ".", "0", "/", "8">>
s_10_1_0_0_16 == <<"1", "0", ".", "1", ".", "0", ".", "0", "/", "1", "6">>
s_10_0_0_0_33 == <<"1", "0", ".", "0", ".", "0", ".", "0", "/", "3", "3">>
s_empty == <<>>
s_x == <<"x">>
s_y == <<"y">>
s_z == <<"z">>

(***************************************************************************)
(* net: IPv4 addresses and networks as the router uses them.  An address   *)
(* is its four octets.  The hosts and rule entries of this model hold no   *)
(* ':' so the IPv6 branch of the parsers is never entered.                 *)
(***************************************************************************)
Nil == "nil"

\* the nil net.IP
NilIP == <<>>

NoCIDR == [ok |-> FALSE, ip |-> NilIP, bits |-> 0]

\* net.parseIPv4: four decimal fields of value <= 255 separated by '.'; the
\* go 1.15 of go.mod accepts leading zeros in a field
parseIPv4(s) ==
    LET f == Split(s, ".")
    IN  IF Len(f) = 4 /\ \A i \in 1..4 : allDigits(f[i]) /\ Len(f[i]) <= 6 /\ atoi(f[i]) <= 255
        THEN [i \in 1..4 |-> atoi(f[i])]
        ELSE NilIP

\* net.ParseIP: the first '.' or ':' selects the parser
ParseIP(s) ==
    IF IndexByte(s, ":") # -1 THEN NilIP
    ELSE IF IndexByte(s, ".") # -1 THEN parseIPv4(s)
    ELSE NilIP

\* net.IP.String of an IPv4 address
IPString(ip) ==
    itoa(ip[1]) \o <<".">> \o itoa(ip[2]) \o <<".">> \o itoa(ip[3]) \o <<".">> \o itoa(ip[4])

RECURSIVE pow2(_)
pow2(n) == IF n = 0 THEN 1 ELSE 2 * pow2(n - 1)

\* x & m for the i-th octet (1..4) of the mask of a /bits network
maskOctet(x, i, bits) ==
    LET b == IF bits >= 8 * i THEN 8
             ELSE IF bits <= 8 * (i - 1) THEN 0
             ELSE bits - 8 * (i - 1)
    IN  (x \div pow2(8 - b)) * pow2(8 - b)

\* net.ParseCIDR: "a.b.c.d/n", n <= 32; the network address is masked
ParseCIDR(s) ==
    LET i == IndexByte(s, "/")
        addr == Slice(s, 0, i)
        mask == Slice(s, i + 1, Len(s))
        ip == parseIPv4(addr)
    IN  IF i = -1 \/ ip = NilIP \/ ~allDigits(mask) \/ Len(mask) > 6 THEN NoCIDR
        ELSE IF atoi(mask) > 32 THEN NoCIDR
        ELSE [ok |-> TRUE, ip |-> [k \in 1..4 |-> maskOctet(ip[k], k, atoi(mask))],
              bits |-> atoi(mask)]

\* net.IPNet.Contains
CIDRContains(cidr, ip) ==
    \A k \in 1..4 : maskOctet(ip[k], k, cidr.bits) = maskOctet(cidr.ip[k], k, cidr.bits)

\* net.SplitHostPort for a hostport without brackets: the port follows the
\* last ':' and the host holds no ':'
SplitHostPort(hostport) ==
    LET i == LastIndexByte(hostport, ":")
    IN  IF i < 0 THEN [err |-> TRUE, host |-> <<>>]
        ELSE IF IndexByte(Slice(hostport, 0, i), ":") >= 0 THEN [err |-> TRUE, host |-> <<>>]
        ELSE [err |-> FALSE, host |-> Slice(hostport, 0, i)]

(***************************************************************************)
(* rule.Proxy: the router.  Groups are named; DefaultGroup is p.proxy.     *)
(***************************************************************************)
DefaultGroup == "D"

\* sync.Map.Store
Store(m, k, v) == [x \in DOMAIN m \cup {k} |-> IF x = k THEN v ELSE m[x]]

EmptyMap == [x \in {} |-> Nil]

\* rule.Config values: the rule files of a deployment
Rule(name, domain, ip, cidr) == [Name |-> name, Domain |-> domain, IP |-> ip, CIDR |-> cidr]

RuleSets ==
    { <<Rule("R1", <<s_example_com>>, <<>>, <<s_10_0_0_0_8>>),
        Rule("R2", <<s_api_example_com>>, <<s_10_1_2_3>>, <<s_10_1_0_0_16>>)>>,
      <<Rule("R1", <<s_API_Example_com>>, <<>>, <<s_10_0_0_0_33>>),
        Rule("R2", <<s_Example_COM>>, <<s_11_0_0_1>>, <<>>)>>,
      <<Rule("R1", <<>>, <<>>, <<s_10_0_0_0_8>>),
        Rule("R2", <<s_11_0_0_1>>, <<>>, <<>>)>> }

\* NewProxy, lines 31-33: the domain entries of the rules, lowercased, in order
RECURSIVE storeDomains(_, _, _)
storeDomains(m, ds, sd) ==
    IF ds = <<>> THEN m
    ELSE storeDomains(Store(m, ToLower(Head(ds)), sd), Tail(ds), sd)

\* NewProxy, lines 35-37
RECURSIVE storeIPs(_, _, _)
storeIPs(m, ips, sd) ==
    IF ips = <<>> THEN m
    ELSE storeIPs(Store(m, Head(ips), sd), Tail(ips), sd)

\* NewProxy, lines 39-43: every CIDR that parses is an entry of its own (the key
\* is the *net.IPNet pointer); one that does not parse is dropped
storeCIDRs(m, rn, cs, sd) ==
    m \cup {[rule |-> rn, n |-> k, cidr |-> ParseCIDR(cs[k]), proxy |-> sd] :
              k \in {j \in 1..Len(cs) : ParseCIDR(cs[j]).ok}}

RECURSIVE newDomainMap(_, _)
newDomainMap(m, rules) ==
    IF rules = <<>> THEN m
    ELSE newDomainMap(storeDomains(m, Head(rules).Domain, Head(rules).Name), Tail(rules))

RECURSIVE newIPMap(_, _)
newIPMap(m, rules) ==
    IF rules = <<>> THEN m
    ELSE newIPMap(storeIPs(m, Head(rules).IP, Head(rules).Name), Tail(rules))

newCIDRMap(rules) ==
    UNION {storeCIDRs({}, k, rules[k].CIDR, rules[k].Name) : k \in 1..Len(rules)}

\* the suffix loop of nextProxy: from index i, the key after the previous '.'
\* is probed; the first key found wins
RECURSIVE domainLookup(_, _, _)
domainLookup(dm, host, i) ==
    LET j == LastIndexByte(Slice(host, 0, i), ".")
        key == Slice(host, j + 1, Len(host))
    IN  IF key \in DOMAIN dm THEN dm[key]
        ELSE IF j = -1 THEN Nil
        ELSE domainLookup(dm, host, j)

\* nextProxy reading the cidr rules before the ip rules
nextProxy_CIDRFirst(dstAddr) ==
    LET hp == SplitHostPort(dstAddr)
        ip == ParseIP(hp.host)
        hit == {e \in cidrMap : CIDRContains(e.cidr, ip)}
        dom == domainLookup(domainMap, ToLower(hp.host), Len(hp.host))
        byDomain == IF dom # Nil THEN {dom} ELSE {DefaultGroup}
    IN  IF hp.err THEN {DefaultGroup}
        ELSE IF ip # NilIP /\ hit # {} THEN {e.proxy : e \in hit}
        ELSE IF ip # NilIP /\ IPString(ip) \in DOMAIN ipMap THEN {ipMap[IPString(ip)]}
        ELSE byDomain

\* the groups nextProxy(dstAddr) can return: one, or one per containing CIDR
\* (sync.Map.Range visits the entries in no fixed order)
nextProxy(dstAddr) ==
    LET hp == SplitHostPort(dstAddr)
        ip == ParseIP(hp.host)
        hit == {e \in cidrMap : CIDRContains(e.cidr, ip)}
        dom == domainLookup(domainMap, ToLower(hp.host), Len(hp.host))
        byDomain == IF dom # Nil THEN {dom} ELSE {DefaultGroup}
    IN  IF hp.err THEN {DefaultGroup}
        ELSE IF ip # NilIP /\ IPString(ip) \in DOMAIN ipMap THEN {ipMap[IPString(ip)]}
        ELSE IF ip # NilIP /\ hit # {} THEN {e.proxy : e \in hit}
        ELSE byDomain

\* AddDomainIP: every suffix of domain that is a key stores ip, shortest first
RECURSIVE addDomainIPLoop(_, _, _, _)
addDomainIPLoop(im, domain, ip, i) ==
    LET j == LastIndexByte(Slice(domain, 0, i), ".")
        key == Slice(domain, j + 1, Len(domain))
        im2 == IF key \in DOMAIN domainMap THEN Store(im, ip, domainMap[key]) ELSE im
    IN  IF j = -1 THEN im2 ELSE addDomainIPLoop(im2, domain, ip, j)

DstAddrs ==
    { d_x_api_example_com_443, d_www_example_com_443, d_WWW_Example_COM_443,
      d_api_example_com_80, d_other_org_80, d_localhost_80, d_10_1_2_3_22,
      d_010_1_2_3_22, d_11_0_0_1_22, d_10_9_9_9_80, d_example_com }

LearnDomains == {s_inner_example_com, s_x_api_example_com, s_other_org, s_API_Example_com}

LearnIPs == {s_10_9_9_9, s_10_1_2_3, s_empty}

(***************************************************************************)
(* 32-bit unsigned words.  TLC's integers are 32-bit signed, so a uint32   *)
(* is the pair <<high 16 bits, low 16 bits>> and the arithmetic of the     *)
(* code is done on the halves, modulo 2^32.                                *)
(***************************************************************************)
Half == 65536

U32(hi, lo) == <<hi, lo>>

\* w + 1 modulo 2^32 (atomic.AddUint32(&w, 1))
U32Inc(w) == IF w[2] = Half - 1 THEN <<(w[1] + 1) % Half, 0>> ELSE <<w[1], w[2] + 1>>

\* w % n for 0 < n < 2^15
U32Mod(w, n) == ((w[1] % n) * (Half % n) + w[2]) % n

\* byte-wise exclusive or
RECURSIVE xorBits(_, _, _)
xorBits(a, b, k) ==
    IF k = 0 THEN 0
    ELSE 2 * xorBits(a \div 2, b \div 2, k - 1) + ((a + b) % 2)

\* w ^ uint32(b) for a byte b
U32XorByte(w, b) == <<w[1], (w[2] \div 256) * 256 + xorBits(w[2] % 256, b, 8)>>

\* w * 16777619 modulo 2^32; 16777619 = 256 * 2^16 + 403
U32MulPrime(w) ==
    LET p == w[2] * 403
    IN  <<(w[1] * 403 + w[2] * 256 + (p \div Half)) % Half, p % Half>>

\* the byte of a character
byteOf(c) ==
        CASE c = "a" -> 97
          [] c = "b" -> 98
          [] c = "c" -> 99
          [] c = "d" -> 100
          [] c = "e" -> 101
          [] c = "f" -> 102
          [] c = "g" -> 103
          [] c = "h" -> 104
          [] c = "i" -> 105
          [] c = "j" -> 106
          [] c = "k" -> 107
          [] c = "l" -> 108
          [] c = "m" -> 109
          [] c = "n" -> 110
          [] c = "o" -> 111
          [] c = "p" -> 112
          [] c = "q" -> 113
          [] c = "r" -> 114
          [] c = "s" -> 115
          [] c = "t" -> 116
          [] c = "u" -> 117
          [] c = "v" -> 118
          [] c = "w" -> 119
          [] c = "x" -> 120
          [] c = "y" -> 121
          [] c = "z" -> 122
          [] c = "0" -> 48
          [] c = "1" -> 49
          [] c = "2" -> 50
          [] c = "3" -> 51
          [] c = "4" -> 52
          [] c = "5" -> 53
          [] c = "6" -> 54
          [] c = "7" -> 55
          [] c = "8" -> 56
          [] c = "9" -> 57
          [] c = "." -> 46
          [] c = ":" -> 58

\* hash/fnv New32a, Write, Sum32: offset basis 0x811c9dc5
RECURSIVE fnv1a(_, _)
fnv1a(h, s) ==
    IF s = <<>> THEN h
    ELSE fnv1a(U32MulPrime(U32XorByte(h, byteOf(Head(s)))), Tail(s))

Sum32a(s) == fnv1a(U32(33052, 40389), s)

(***************************************************************************)
(* timewindow.TimeWindow.  An instant is its weekday as time.Weekday gives *)
(* it (0 = Sunday .. 6 = Saturday), its hour and its minute.               *)
(***************************************************************************)
TimeWindow(fd, td, fh, fm, th, tm) ==
    [FromDay |-> fd, ToDay |-> td, FromHour |-> fh, FromMin |-> fm, ToHour |-> th, ToMin |-> tm]

Instant(wd, h, m) == [Weekday |-> wd, Hour |-> h, Minute |-> m]

\* Contains looking at the hours only
Contains_HoursOnly(timeWindow, time) ==
    LET weekday == IF time.Weekday = 0 THEN 7 ELSE time.Weekday
    IN  IF weekday < timeWindow.FromDay \/ weekday > timeWindow.ToDay THEN FALSE
        ELSE IF time.Hour < timeWindow.FromHour \/ time.Hour > timeWindow.ToHour THEN FALSE
        ELSE TRUE

\* TimeWindow.Contains
Contains(timeWindow, time) ==
    LET weekday == IF time.Weekday = 0 THEN 7 ELSE time.Weekday
    IN  IF weekday < timeWindow.FromDay \/ weekday > timeWindow.ToDay THEN FALSE
        ELSE IF time.Hour < timeWindow.FromHour \/ time.Hour > timeWindow.ToHour THEN FALSE
        ELSE IF time.Hour = timeWindow.FromHour /\ time.Minute < timeWindow.FromMin THEN FALSE
        ELSE IF time.Hour = timeWindow.ToHour /\ time.Minute > timeWindow.ToMin THEN FALSE
        ELSE TRUE

\* strings.ToUpper on the letters
UpperLetters ==
    {"A", "B", "C", "D", "E", "F", "G", "H", "I", "J", "K", "L", "M",
     "N", "O", "P", "Q", "R", "S", "T", "U", "V", "W", "X", "Y", "Z"}

upperByte(c) ==
    LET ups == {u \in UpperLetters : lowerByte(u) = c}
    IN  IF ups = {} THEN c ELSE CHOOSE u \in ups : TRUE

ToUpper(s) == [i \in 1..Len(s) |-> upperByte(s[i])]

\* strings.Fields: the maximal runs of s without white space
isSpace(c) == c \in {" ", "\t", "\n", "\r"}

RECURSIVE Fields(_)
Fields(s) ==
    IF s = <<>> THEN <<>>
    ELSE IF isSpace(s[1]) THEN Fields(Slice(s, 1, Len(s)))
    ELSE LET ends == {i \in 1..Len(s) : isSpace(s[i])}
             n == IF ends = {} THEN Len(s)
                  ELSE (CHOOSE i \in ends : \A j \in ends : i <= j) - 1
         IN  <<Slice(s, 0, n)>> \o Fields(Slice(s, n, Len(s)))

\* strconv.Atoi: an optional sign, then digits only
Atoi(s) ==
    LET signed == s # <<>> /\ s[1] \in {"+", "-"}
        body == IF signed THEN Slice(s, 1, Len(s)) ELSE s
    IN  IF ~allDigits(body) THEN [err |-> TRUE, n |-> 0]
        ELSE [err |-> FALSE, n |-> IF signed /\ s[1] = "-" THEN 0 - atoi(body) ELSE atoi(body)]

\* log.Fatal ends the process: no value is returned
Fatal == [ok |-> FALSE, a |-> 0, b |-> 0]

Pair(a, b) == [ok |-> TRUE, a |-> a, b |-> b]

DayNames == <<<<"M", "O", "N">>, <<"T", "U", "E">>, <<"W", "E", "D">>, <<"T", "H", "U">>, <<"F", "R", "I">>, <<"S", "A", "T">>, <<"S", "U", "N">>>>

parseDaysOfWeek(daysOfWeekString) ==
    LET up == ToUpper(daysOfWeekString)
        daysOfWeek == Split(daysOfWeekString, "-")
        from == Atoi(daysOfWeek[1])
        to == Atoi(daysOfWeek[2])
    IN  IF \E d \in 1..7 : DayNames[d] = up
        THEN LET d == CHOOSE d \in 1..7 : DayNames[d] = up IN Pair(d, d)
        ELSE IF Len(daysOfWeek) # 2 \/ Len(daysOfWeek[1]) # 1 \/ Len(daysOfWeek[2]) # 1
        THEN Fatal
        ELSE IF from.err THEN Fatal
        ELSE IF to.err THEN Fatal
        ELSE IF from.n < 1 \/ from.n > 7 \/ to.n < 1 \/ to.n > 7 THEN Fatal
        ELSE Pair(from.n, to.n)

parseTime(timeString) ==
    LET timeTokens == Split(timeString, ":")
        hour == Atoi(timeTokens[1])
        min == Atoi(timeTokens[2])
    IN  IF Len(timeTokens) # 2 \/ Len(timeTokens[1]) = 0 \/ Len(timeTokens[1]) > 2
           \/ Len(timeTokens[2]) = 0 \/ Len(timeTokens[2]) > 2
        THEN Fatal
        ELSE IF hour.err THEN Fatal
        ELSE IF min.err THEN Fatal
        ELSE IF hour.n < 0 \/ hour.n > 23 \/ min.n < 0 \/ min.n > 59 THEN Fatal
        ELSE Pair(hour.n, min.n)

\* what Parse gives when the process is ended by log.Fatal
NoWindow == [ok |-> FALSE, w |-> TimeWindow(0, 0, 0, 0, 0, 0)]

\* timewindow.Parse
Parse(timeWindowString) ==
    LET fields == Fields(timeWindowString)
        days == parseDaysOfWeek(fields[1])
        from == parseTime(fields[2])
        to == parseTime(fields[3])
    IN  IF Len(fields) # 3 THEN NoWindow
        ELSE IF ~days.ok THEN NoWindow
        ELSE IF ~from.ok THEN NoWindow
        ELSE IF ~to.ok THEN NoWindow
        ELSE [ok |-> TRUE, w |-> TimeWindow(days.a, days.b, from.a, from.b, to.a, to.b)]

\* the strings given to Parse: a days-of-week field and two time fields
DayStrings ==
    { <<"M", "O", "N">>,
      <<"s", "u", "n">>,
      <<"F", "r", "i">>,
      <<"1", "-", "7">>,
      <<"5", "-", "1">>,
      <<"3", "-", "3">>,
      <<"6", "-", "7">>,
      <<"0", "-", "3">>,
      <<"1", "-", "8">>,
      <<"1">>,
      <<"x", "-", "2">>,
      <<"1", "2", "-", "3">>,
      <<"1", "-", "2", "-", "3">>,
      <<"M", "O", "N", "D", "A", "Y">> }

TimeStrings ==
    { <<"0", "0", ":", "0", "0">>,
      <<"2", "3", ":", "5", "9">>,
      <<"9", ":", "5">>,
      <<"0", "9", ":", "0", "0">>,
      <<"1", "7", ":", "3", "0">>,
      <<"+", "9", ":", "0", "0">>,
      <<"2", "4", ":", "0", "0">>,
      <<"1", "2", ":", "6", "0">>,
      <<"1", "2", "0", "0">>,
      <<"0", "0", "1", ":", "0", "0">>,
      <<"9", ":">>,
      <<"-", "1", ":", "0", "0">> }

sp == <<" ">>

WindowStrings ==
    {d \o sp \o f \o sp \o t : d \in DayStrings, f \in TimeStrings, t \in TimeStrings}
    \cup {sp \o d \o sp \o sp \o f \o <<"\t">> \o f \o sp : d \in DayStrings, f \in TimeStrings}
    \cup {d \o sp \o f : d \in DayStrings, f \in TimeStrings}
    \cup {d \o sp \o f \o sp \o f \o sp \o f : d \in DayStrings, f \in TimeStrings}
    \cup {<<>>}

\* the instants given to Contains
WindowInstants == {Instant(wd, h, m) : wd \in 0..6, h \in {0, 9, 12, 17, 23}, m \in {0, 5, 30, 59}}

(***************************************************************************)
(* strategy.Forwarder.  The forwarder's own file is not among the sources; *)
(* its operations follow the description of the forwarder component:       *)
(* Enable and Disable flip the flag and call the handlers on a change,     *)
(* Enable clears the failure count, IncFailures disables on reaching       *)
(* maxFailures.  A group state st holds the fields the handlers touch.     *)
(***************************************************************************)
Reject == "REJECT"
Direct == "DIRECT"

SeqToSet(s) == {s[i] : i \in 1..Len(s)}

\* sort.Sort(p.fwdrs) with Less(i, j) = Priority(i) > Priority(j); for the
\* short slices of a group the sort is an insertion sort, which keeps ties
\* in their order
RECURSIVE insertByPri(_, _, _)
insertByPri(s, f, p) ==
    IF s = <<>> THEN <<f>>
    ELSE IF p[s[Len(s)]] >= p[f] THEN Append(s, f)
    ELSE Append(insertByPri(SubSeq(s, 1, Len(s) - 1), f, p), s[Len(s)])

RECURSIVE sortByPri(_, _)
sortByPri(s, p) ==
    IF s = <<>> THEN <<>>
    ELSE insertByPri(sortByPri(SubSeq(s, 1, Len(s) - 1), p), s[Len(s)], p)

\* the first enabled forwarder of p.fwdrs, 0 when there is none
firstEnabled(st) ==
    LET hits == {i \in 1..Len(fwdrs) : st.enabled[fwdrs[i]]}
    IN  IF hits = {} THEN 0 ELSE CHOOSE i \in hits : \A j \in hits : i <= j

\* the subsequence of s whose elements satisfy keep
RECURSIVE filterSeq(_, _)
filterSeq(s, keep) ==
    IF s = <<>> THEN <<>>
    ELSE IF Head(s) \in keep THEN <<Head(s)>> \o filterSeq(Tail(s), keep)
    ELSE filterSeq(Tail(s), keep)

\* init leaving the active priority as it is when no forwarder is available
init_KeepPriority(st) ==
    LET k == firstEnabled(st)
        pr == IF k # 0 THEN pri[fwdrs[k]] ELSE st.priority
        av == filterSeq(fwdrs, {f \in SeqToSet(fwdrs) : st.enabled[f] /\ pri[f] >= pr})
    IN  [st EXCEPT !.avail = av, !.priority = pr]

\* Proxy.init: the active priority is that of the first enabled forwarder (left
\* as it was when none is enabled), avail the enabled forwarders of at least
\* that priority, and priority 0 when avail is empty
init(st) ==
    LET k == firstEnabled(st)
        pr == IF k # 0 THEN pri[fwdrs[k]] ELSE st.priority
        av == filterSeq(fwdrs, {f \in SeqToSet(fwdrs) : st.enabled[f] /\ pri[f] >= pr})
    IN  [st EXCEPT !.avail = av, !.priority = IF av = <<>> THEN 0 ELSE pr]

\* p.avail[i], p.avail = p.avail[len-1], p.avail[:len-1] for the first i with
\* p.avail[i] == fwdr
removeSwap(av, f) ==
    LET i == IndexByte(av, f) + 1
    IN  IF i = 0 THEN av
        ELSE SubSeq([av EXCEPT ![i] = av[Len(av)]], 1, Len(av) - 1)

\* onStatusChanged without the removal of a disabled forwarder
onStatusChanged_NoRemove(st, fwdr) ==
    LET st1 == IF st.enabled[fwdr]
               THEN IF pri[fwdr] = st.priority
                    THEN [st EXCEPT !.avail = Append(st.avail, fwdr)]
                    ELSE IF pri[fwdr] > st.priority THEN init(st) ELSE st
               ELSE st
    IN  IF st1.avail = <<>> THEN init(st1) ELSE st1

\* onStatusChanged appending an enabled forwarder of a higher tier instead of
\* rebuilding
onStatusChanged_AppendHigher(st, fwdr) ==
    LET st1 == IF st.enabled[fwdr]
               THEN IF pri[fwdr] >= st.priority
                    THEN [st EXCEPT !.avail = Append(st.avail, fwdr)]
                    ELSE st
               ELSE [st EXCEPT !.avail = removeSwap(st.avail, fwdr)]
    IN  IF st1.avail = <<>> THEN init(st1) ELSE st1

\* Proxy.onStatusChanged
onStatusChanged(st, fwdr) ==
    LET st1 == IF st.enabled[fwdr]
               THEN IF pri[fwdr] = st.priority
                    THEN [st EXCEPT !.avail = Append(st.avail, fwdr)]
                    ELSE IF pri[fwdr] > st.priority THEN init(st) ELSE st
               ELSE [st EXCEPT !.avail = removeSwap(st.avail, fwdr)]
    IN  IF st1.avail = <<>> THEN init(st1) ELSE st1

\* onStatusChanged added twice to each forwarder
handlers_Twice(st, f) ==
    IF f \in SeqToSet(fwdrs)
    THEN onStatusChanged(onStatusChanged(
             [st EXCEPT !.notified = Append(Append(st.notified, f), f)], f), f)
    ELSE st

\* the handlers of a forwarder: newProxy adds onStatusChanged to each of fwdrs;
\* notified lists the calls made
handlers(st, f) ==
    IF f \in SeqToSet(fwdrs)
    THEN onStatusChanged([st EXCEPT !.notified = Append(st.notified, f)], f)
    ELSE st

\* Forwarder.Enable
Enable(st, f) ==
    LET st1 == IF st.enabled[f] THEN st
               ELSE handlers([st EXCEPT !.enabled[f] = TRUE], f)
    IN  [st1 EXCEPT !.failures[f] = 0]

\* Forwarder.Disable
Disable(st, f) ==
    IF st.enabled[f] THEN handlers([st EXCEPT !.enabled[f] = FALSE], f) ELSE st

\* Forwarder.IncFailures
IncFailures(st, f) ==
    LET n == st.failures[f] + 1
        st1 == [st EXCEPT !.failures[f] = n]
    IN  IF n = maxFailures[f] /\ st1.enabled[f] THEN Disable(st1, f) ELSE st1

\* a success that is not reported to the forwarder
OnRecord_IgnoreSuccess(st, dialer, success) ==
    IF success THEN st ELSE IncFailures(st, dialer)

\* OnRecord
OnRecord(st, dialer, success) ==
    IF success THEN Enable(st, dialer) ELSE IncFailures(st, dialer)

\* a probe that takes the latency as soon as four bytes were read, before
\* comparing them
checkWebSite_LatencyBeforeBytes(st, fwdr, outcome, readTime) ==
    IF outcome \in {"dial", "write", "read"} THEN [st |-> Disable(st, fwdr), ret |-> FALSE]
    ELSE LET st1 == [st EXCEPT !.latency[fwdr] = readTime]
         IN  IF outcome # "HTTP" \/ readTime > checkTimeout
             THEN [st |-> Disable(st1, fwdr), ret |-> FALSE]
             ELSE [st |-> Enable(st1, fwdr), ret |-> TRUE]

\* checkWebSite: the probe of fwdr.  outcome is what the network did (the dial,
\* the write or the read failing, four bytes other than "HTTP", or "HTTP"),
\* readTime the time the probe took
checkWebSite(st, fwdr, outcome, readTime) ==
    IF outcome # "HTTP" THEN [st |-> Disable(st, fwdr), ret |-> FALSE]
    ELSE LET st1 == [st EXCEPT !.latency[fwdr] = readTime]
         IN  IF readTime > checkTimeout THEN [st |-> Disable(st1, fwdr), ret |-> FALSE]
             ELSE [st |-> Enable(st1, fwdr), ret |-> TRUE]

\* round robin taking the counter before the increment
scheduleRR_PostIncrement(idx) == avail[U32Mod(idx, Len(avail)) + 1]

\* Round Robin
scheduleRR(idx) == avail[U32Mod(U32Inc(idx), Len(avail)) + 1]

\* High Availability
scheduleHA == avail[1]

\* Latency based High Availability: the first forwarder of the lowest latency
scheduleLHA ==
    LET best == {i \in 1..Len(avail) : \A j \in 1..Len(avail) : latency[avail[i]] <= latency[avail[j]]}
    IN  avail[CHOOSE i \in best : \A j \in best : i <= j]

\* Destination Hashing
scheduleDH(dstAddr) == avail[U32Mod(Sum32a(dstAddr), Len(avail)) + 1]

\* the strategy switch of newProxy: p.next
next(dstAddr, idx) ==
    CASE strategy = "rr" -> [ret |-> scheduleRR(idx), index |-> U32Inc(idx)]
      [] strategy = "ha" -> [ret |-> scheduleHA, index |-> idx]
      [] strategy = "lha" -> [ret |-> scheduleLHA, index |-> idx]
      [] strategy = "dh" -> [ret |-> scheduleDH(dstAddr), index |-> idx]
      [] OTHER -> [ret |-> scheduleRR(idx), index |-> U32Inc(idx)]

\* the windows of rejectTime left unread
allowedAt_IgnoreReject(now) ==
    IF Len(forwardTime) = 0 THEN TRUE
    ELSE \E i \in 1..Len(forwardTime) : Contains(forwardTime[i], now)

\* NextDialer, lines 268-293: whether the time windows allow at instant now
allowedAt(now) ==
    LET byForward == IF Len(forwardTime) = 0 THEN TRUE
                     ELSE \E i \in 1..Len(forwardTime) : Contains(forwardTime[i], now)
    IN  IF ~byForward THEN FALSE
        ELSE ~\E i \in 1..Len(rejectTime) : Contains(rejectTime[i], now)

\* NextDialer rejecting when no forwarder is available
NextDialer_RejectWhenEmpty(dstAddr, now) ==
    IF ~allowedAt(now) \/ Len(avail) = 0 THEN [ret |-> Reject, index |-> index]
    ELSE next(dstAddr, index)

\* Proxy.NextDialer: the dialer returned and the counter after the call
NextDialer(dstAddr, now) ==
    IF ~allowedAt(now) THEN [ret |-> Reject, index |-> index]
    ELSE IF Len(avail) = 0
         THEN [ret |-> fwdrs[U32Mod(U32Inc(index), Len(fwdrs)) + 1], index |-> U32Inc(index)]
         ELSE next(dstAddr, index)

(***************************************************************************)
(* Configurations of a group (strategy.Config and the forward list of its  *)
(* rule), the instants and the probe outcomes the model draws from.        *)
(***************************************************************************)
ExtraFailures == 1
MaxIndex == 3
DefaultMaxFailures == 3

Fwd(id, p) == [id |-> id, priority |-> p]

W_MON_0900_1700 == TimeWindow(1, 1, 9, 0, 17, 0)
W_MON_1200_1300 == TimeWindow(1, 1, 12, 0, 13, 0)
W_6_7_0000_2359 == TimeWindow(6, 7, 0, 0, 23, 59)

Instants == {Instant(1, 12, 30), Instant(1, 10, 0), Instant(1, 17, 1), Instant(0, 10, 0)}

GroupConfig(forward, strat, maxf, timeout, ft, rt, idx) ==
    [Forward |-> forward, Strategy |-> strat, MaxFailures |-> maxf,
     CheckTimeout |-> timeout, ForwardTime |-> ft, RejectTime |-> rt, Index |-> idx]

\* the counter of a group as constructed, and three picks before it wraps
Index0 == U32(0, 0)
IndexNearWrap == U32(Half - 1, Half - 3)

GroupConfigs ==
    { GroupConfig(<<>>, "ha", 2, 2, <<>>, <<>>, Index0),
      GroupConfig(<<>>, "rr", 2, 2, <<>>, <<>>, Index0),
      GroupConfig(<<>>, "lha", 2, 2, <<>>, <<>>, Index0),
      GroupConfig(<<>>, "dh", 2, 2, <<>>, <<>>, IndexNearWrap),
      GroupConfig(<<>>, "xx", 2, 2, <<>>, <<>>, Index0),
      GroupConfig(<<Fwd("A", 2), Fwd("B", 1)>>, "ha", DefaultMaxFailures, 2, <<>>, <<>>, Index0),
      GroupConfig(<<Fwd("A", 0), Fwd("B", 0), Fwd("C", 0)>>, "rr", 1, 2, <<>>, <<>>, Index0),
      GroupConfig(<<Fwd("A", 0), Fwd("B", 0), Fwd("C", 0)>>, "rr", 1, 2, <<>>, <<>>, IndexNearWrap),
      GroupConfig(<<Fwd("A", 1), Fwd("B", 1), Fwd("C", 1)>>, "dh", 1, 2, <<>>, <<>>, Index0),
      GroupConfig(<<Fwd("B", 1), Fwd("A", 2), Fwd("C", 2)>>, "lha", 1, 2, <<>>, <<>>, Index0),
      GroupConfig(<<Fwd("A", 0), Fwd("B", 3)>>, "xx", 2, 0, <<>>, <<>>, IndexNearWrap),
      GroupConfig(<<Fwd("A", 2), Fwd("B", 1)>>, "rr", 1, 1,
                  <<W_MON_0900_1700>>, <<W_MON_1200_1300>>, Index0),
      GroupConfig(<<Fwd("A", 0), Fwd("B", 0)>>, "dh", 1, 2,
                  <<W_6_7_0000_2359, W_MON_0900_1700>>, <<>>, Index0),
      GroupConfig(<<Fwd("A", 1), Fwd("B", 2)>>, "lha", 2, 2, <<>>, <<W_MON_1200_1300>>, Index0) }

GroupDsts == {s_x, s_y}

Outcomes == {"dial", "write", "read", "bytes", "HTTP"}

ReadTimes == {2}

NoCall == [op |-> "none"]

St == [enabled |-> enabled, failures |-> failures, latency |-> latency,
       avail |-> avail, priority |-> priority, notified |-> <<>>]

\* the forwarders left without SetMaxFailures
newMaxFailures_Unset(c, all) == [f \in all |-> 0]

\* NewProxy, line 198: SetMaxFailures on each forwarder of the list; the direct
\* and the reject forwarder keep the zero value
newMaxFailures(c, all) == [f \in all |-> IF f \in {Direct, Reject} THEN 0 ELSE c.MaxFailures]

\* the strategy of the configuration kept for a group without forwarders
newStrategy_AsConfigured(c) == c.Strategy

\* NewProxy, lines 202-207: the strategy of a group without forwarders is "rr"
newStrategy(c) == IF c.Forward = <<>> THEN "rr" ELSE c.Strategy

\* strategy.NewProxy and newProxy: the forwarders of the list (the direct
\* forwarder for an empty list, with strategy "rr"), sorted; the reject
\* forwarder; init
NewProxy(c) ==
    LET ids == IF c.Forward = <<>> THEN <<Direct>>
               ELSE [i \in 1..Len(c.Forward) |-> c.Forward[i].id]
        all == SeqToSet(ids) \cup {Reject}
        p == [f \in all |->
                IF \E i \in 1..Len(c.Forward) : c.Forward[i].id = f
                THEN c.Forward[CHOOSE i \in 1..Len(c.Forward) : c.Forward[i].id = f].priority
                ELSE 0]
    IN  /\ pri = p
        /\ fwdrs = sortByPri(ids, p)
        /\ strategy = newStrategy(c)
        /\ configured = c.Strategy
        /\ maxFailures = newMaxFailures(c, all)
        /\ checkTimeout = c.CheckTimeout
        /\ forwardTime = c.ForwardTime
        /\ rejectTime = c.RejectTime
        /\ enabled = [f \in all |-> TRUE]
        /\ failures = [f \in all |-> 0]
        /\ latency = [f \in all |-> 0]
        /\ index = c.Index
        /\ last = NoCall

GroupInit ==
    /\ \E c \in GroupConfigs : NewProxy(c)
    /\ \E st \in {init([enabled |-> enabled, failures |-> failures, latency |-> latency,
                        avail |-> <<>>, priority |-> 0])} :
          avail = st.avail /\ priority = st.priority

NoRouter ==
    /\ domainMap = EmptyMap
    /\ ipMap = EmptyMap
    /\ cidrMap = {}
    /\ rlast = NoCall

\* no callback and no recorded failure yet
NoHistory ==
    /\ notified = <<>>
    /\ streak = [f \in DOMAIN enabled |-> 0]
    /\ run = [f \in DOMAIN enabled |-> 0]

\* no time window parsed, no instant tested
NoInstant == Instant(0, 0, -1)

NoParse ==
    /\ twString = <<>>
    /\ tw = NoWindow
    /\ twNow = NoInstant
    /\ twRet = FALSE

\* no goroutine on the group
NoActivity ==
    /\ mu = [writer |-> Nil, readers |-> {}]
    /\ pc = EmptyMap
    /\ arg = EmptyMap
    /\ seen = EmptyMap
    /\ ret = EmptyMap
    /\ ops = 0

\* no check loop started
NoCheck ==
    /\ checkDisabledOnly = FALSE
    /\ wait = EmptyMap
    /\ passes = EmptyMap
    /\ probed = EmptyMap
    /\ slept = EmptyMap

Init == GroupInit /\ NoRouter /\ NoHistory /\ NoParse /\ NoActivity /\ NoCheck

SetSt(st) ==
    /\ enabled' = st.enabled
    /\ failures' = st.failures
    /\ latency' = st.latency
    /\ avail' = st.avail
    /\ priority' = st.priority

cfgvars == <<fwdrs, pri, strategy, maxFailures, checkTimeout, forwardTime, rejectTime,
             configured>>

\* a request picks its dialer
Pick(dstAddr, now) ==
    /\ index[1] = Half - 1 \/ index[2] < MaxIndex
    /\ LET r == NextDialer(dstAddr, now)
       IN  /\ index' = r.index
           /\ last' = [op |-> "NextDialer", dst |-> dstAddr, now |-> now, ret |-> r.ret, c |-> index]
    /\ UNCHANGED <<cfgvars, enabled, failures, latency, avail, priority, rvars, ovars>>

\* Proxy.Record: the outcome of a connection through dialer is reported
Record(dialer, success) ==
    /\ success \/ failures[dialer] < maxFailures[dialer] + ExtraFailures
    /\ SetSt(OnRecord(St, dialer, success))
    /\ last' = NoCall
    /\ UNCHANGED <<cfgvars, index, rvars, ovars>>

\* one probe of a forwarder by its check loop (Check starts the loops of a
\* group of more than one forwarder)
Probe(f, outcome, readTime) ==
    /\ Len(fwdrs) > 1
    /\ LET r == checkWebSite(St, f, outcome, readTime)
       IN  /\ SetSt(r.st)
           /\ last' = NoCall
    /\ UNCHANGED <<cfgvars, index, rvars, ovars>>

Next ==
    \/ \E dstAddr \in GroupDsts, now \in Instants : Pick(dstAddr, now)
    \/ \E dialer \in SeqToSet(fwdrs) \cup {Reject}, success \in BOOLEAN : Record(dialer, success)
    \/ \E f \in SeqToSet(fwdrs), outcome \in Outcomes, readTime \in ReadTimes :
          Probe(f, outcome, readTime)

Spec == Init /\ [][Next]_vars

(***************************************************************************)
(* The router on its own: the groups are only named, none is constructed.  *)
(***************************************************************************)
NoGroup ==
    /\ fwdrs = <<>>
    /\ pri = EmptyMap
    /\ strategy = "rr"
    /\ configured = "rr"
    /\ maxFailures = EmptyMap
    /\ checkTimeout = 0
    /\ forwardTime = <<>>
    /\ rejectTime = <<>>
    /\ enabled = EmptyMap
    /\ failures = EmptyMap
    /\ latency = EmptyMap
    /\ avail = <<>>
    /\ priority = 0
    /\ index = Index0
    /\ last = NoCall

\* rule.NewProxy
RuleNewProxy(rules) ==
    /\ domainMap = newDomainMap(EmptyMap, rules)
    /\ ipMap = newIPMap(EmptyMap, rules)
    /\ cidrMap = newCIDRMap(rules)
    /\ rlast = NoCall

RuleInit == NoGroup /\ NoHistory /\ NoParse /\ NoActivity /\ NoCheck /\ \E rules \in RuleSets : RuleNewProxy(rules)

\* a request is routed: nextProxy
Route(dstAddr) ==
    /\ \E g \in nextProxy(dstAddr) : rlast' = [op |-> "nextProxy", dst |-> dstAddr, ret |-> g]
    /\ UNCHANGED <<domainMap, ipMap, cidrMap, gvars, ovars>>

\* Proxy.AddDomainIP
AddDomainIP(domain, ip) ==
    /\ ipMap' = IF ip # <<>>
                THEN addDomainIPLoop(ipMap, ToLower(domain), ip, Len(domain))
                ELSE ipMap
    /\ rlast' = [op |-> "AddDomainIP", domain |-> domain, ip |-> ip]
    /\ UNCHANGED <<domainMap, cidrMap, gvars, ovars>>

RuleNext ==
    \/ \E dstAddr \in DstAddrs : Route(dstAddr)
    \/ \E domain \in LearnDomains, ip \in LearnIPs : AddDomainIP(domain, ip)

SpecRule == RuleInit /\ [][RuleNext]_vars

(***************************************************************************)
(* A group with the history of its operations: the callbacks made by the   *)
(* last operation, and for each forwarder the failures recorded in a row,  *)
(* streak since the last recorded success or the last change to enabled,   *)
(* run since the last recorded success or the last successful probe.       *)
(***************************************************************************)
HistConfigs ==
    { GroupConfig(<<Fwd("A", 2), Fwd("B", 1)>>, "ha", 2, 2, <<>>, <<>>, Index0),
      GroupConfig(<<Fwd("A", 1), Fwd("B", 1)>>, "rr", DefaultMaxFailures, 2, <<>>, <<>>, Index0),
      GroupConfig(<<Fwd("A", 0), Fwd("B", 3)>>, "lha", 1, 0, <<>>, <<>>, Index0) }

\* newProxy: the group of configuration c, avail built by init
NewGroup(c) ==
    /\ NewProxy(c)
    /\ \E st \in {init([enabled |-> enabled, failures |-> failures, latency |-> latency,
                        avail |-> <<>>, priority |-> 0])} :
          avail = st.avail /\ priority = st.priority

HistInit ==
    /\ \E c \in HistConfigs : NewGroup(c)
    /\ NoRouter /\ NoHistory /\ NoParse /\ NoActivity /\ NoCheck

\* Proxy.Record, with its history
RecordTraced(dialer, success) ==
    /\ success \/ streak[dialer] < maxFailures[dialer] + ExtraFailures
    /\ LET st == OnRecord(St, dialer, success)
       IN  /\ SetSt(st)
           /\ notified' = st.notified
    /\ streak' = [streak EXCEPT ![dialer] = IF success THEN 0 ELSE @ + 1]
    /\ run' = [run EXCEPT ![dialer] = IF success THEN 0 ELSE @ + 1]
    /\ UNCHANGED <<cfgvars, index, last, rvars, tvars, cvars, kvars>>

\* one probe of a forwarder, with its history
ProbeTraced(f, outcome, readTime) ==
    /\ Len(fwdrs) > 1
    /\ LET r == checkWebSite(St, f, outcome, readTime)
       IN  /\ SetSt(r.st)
           /\ notified' = r.st.notified
           /\ streak' = IF ~enabled[f] /\ r.st.enabled[f]
                        THEN [streak EXCEPT ![f] = 0] ELSE streak
           /\ run' = IF r.ret THEN [run EXCEPT ![f] = 0] ELSE run
    /\ UNCHANGED <<cfgvars, index, last, rvars, tvars, cvars, kvars>>

HistNext ==
    \/ \E dialer \in SeqToSet(fwdrs) \cup {Reject}, success \in BOOLEAN :
          RecordTraced(dialer, success)
    \/ \E f \in SeqToSet(fwdrs), outcome \in Outcomes, readTime \in ReadTimes :
          ProbeTraced(f, outcome, readTime)

SpecHist == HistInit /\ [][HistNext]_vars

(***************************************************************************)
(* Time windows on their own: a string is parsed as the flags of a rule    *)
(* are (timeWindowSliceValue.Set), and the window is asked about instants. *)
(***************************************************************************)
\* the string of a forwardtime or rejecttime flag, not parsed yet
TimeInit ==
    /\ NoGroup /\ NoRouter /\ NoHistory /\ NoActivity /\ NoCheck
    /\ twString \in WindowStrings
    /\ tw = NoWindow
    /\ twNow = NoInstant
    /\ twRet = FALSE

\* timewindow.Parse(twString)
ParseWindow ==
    /\ ~tw.ok
    /\ tw' = Parse(twString)
    /\ UNCHANGED <<twString, twNow, twRet, rvars, gvars, hvars, cvars, kvars>>

\* timeWindow.Contains(time) on the parsed window
AskWindow(time) ==
    /\ tw.ok
    /\ twNow = NoInstant
    /\ twNow' = time
    /\ twRet' = Contains(tw.w, time)
    /\ UNCHANGED <<twString, tw, rvars, gvars, hvars, cvars, kvars>>

TimeNext ==
    \/ ParseWindow
    \/ \E time \in WindowInstants : AskWindow(time)

SpecTime == TimeInit /\ [][TimeNext]_vars

(***************************************************************************)
(* The goroutines on a group: requests picking a dialer (NextDialer under  *)
(* the read lock of p.mu), and the check loops and the callers of Record   *)
(* changing the status of forwarders.  A status change flips the flag of   *)
(* the forwarder first; the goroutine then runs the handler, which takes   *)
(* the write lock of p.mu and reads the flags again.                       *)
(***************************************************************************)
MaxOps == 4

ConcConfigs ==
    { GroupConfig(<<Fwd("A", 1), Fwd("B", 1)>>, "rr", 1, 2, <<>>, <<>>, Index0),
      GroupConfig(<<Fwd("A", 2), Fwd("B", 1)>>, "ha", 1, 2, <<>>, <<>>, Index0) }

\* the goroutines of requests and of callers of Record; the check loop of a
\* forwarder is named as the forwarder
Pickers == {"pick1", "pick2"}
Recorders == {"rec1"}

ConcInit ==
    /\ \E c \in ConcConfigs : NewGroup(c)
    /\ NoRouter /\ NoHistory /\ NoParse /\ NoCheck
    /\ mu = [writer |-> Nil, readers |-> {}]
    /\ pc = [a \in Pickers \cup Recorders \cup SeqToSet(fwdrs) |-> "idle"]
    /\ arg = [a \in Recorders \cup SeqToSet(fwdrs) |-> Nil]
    /\ seen = [t \in Pickers |-> <<>>]
    /\ ret = [t \in Pickers |-> Nil]
    /\ ops = 0

\* p.mu.RLock() taken without waiting for the writer
canRLock_NoLock == TRUE

\* p.mu.RLock(): no goroutine holds the write lock
canRLock == mu.writer = Nil

\* p.mu.Lock(): no goroutine holds the lock
canLock == mu.writer = Nil /\ mu.readers = {}

\* NextDialer, line 299: p.mu.RLock()
RLock(t) ==
    /\ pc[t] = "idle"
    /\ ops < MaxOps
    /\ canRLock
    /\ mu' = [mu EXCEPT !.readers = @ \cup {t}]
    /\ pc' = [pc EXCEPT ![t] = "test"]
    /\ seen' = [seen EXCEPT ![t] = <<>>]
    /\ ret' = [ret EXCEPT ![t] = Nil]
    /\ ops' = ops + 1
    /\ UNCHANGED <<cfgvars, enabled, failures, latency, avail, priority, index, last,
                   arg, rvars, hvars, tvars, kvars>>

\* NextDialer, lines 302-304: the emptiness test, and the pick among fwdrs
TestAvail(t) ==
    /\ pc[t] = "test"
    /\ seen' = [seen EXCEPT ![t] = avail]
    /\ IF Len(avail) = 0
       THEN /\ ret' = [ret EXCEPT ![t] = fwdrs[U32Mod(U32Inc(index), Len(fwdrs)) + 1]]
            /\ index' = U32Inc(index)
            /\ pc' = [pc EXCEPT ![t] = "unlock"]
       ELSE /\ pc' = [pc EXCEPT ![t] = "next"]
            /\ UNCHANGED <<ret, index>>
    /\ UNCHANGED <<cfgvars, enabled, failures, latency, avail, priority, last,
                   mu, arg, ops, rvars, hvars, tvars, kvars>>

\* NextDialer, line 306: p.next(dstAddr) indexes avail; on an empty avail the
\* index is taken modulo zero and the goroutine panics
CallNext(t, dstAddr) ==
    /\ pc[t] = "next"
    /\ IF avail = <<>>
       THEN /\ pc' = [pc EXCEPT ![t] = "panic"]
            /\ UNCHANGED <<ret, index>>
       ELSE LET r == next(dstAddr, index)
            IN  /\ ret' = [ret EXCEPT ![t] = r.ret]
                /\ index' = r.index
                /\ pc' = [pc EXCEPT ![t] = "unlock"]
    /\ UNCHANGED <<cfgvars, enabled, failures, latency, avail, priority, last,
                   mu, arg, seen, ops, rvars, hvars, tvars, kvars>>

\* NextDialer, line 300: the deferred p.mu.RUnlock()
RUnlock(t) ==
    /\ pc[t] = "unlock"
    /\ mu' = [mu EXCEPT !.readers = @ \ {t}]
    /\ pc' = [pc EXCEPT ![t] = "idle"]
    /\ UNCHANGED <<cfgvars, enabled, failures, latency, avail, priority, index, last,
                   arg, seen, ret, ops, rvars, hvars, tvars, kvars>>

\* a check loop (of f itself) or a caller of Record changes the flag of f to
\* v: Enable on a success, Disable on a failed probe or on the failure that
\* reaches maxFailures.  On a change the goroutine goes on to the handler.
SetEnabled(a, f, v) ==
    /\ pc[a] = "idle"
    /\ ops < MaxOps
    /\ a \in Recorders \/ a = f
    /\ ops' = ops + 1
    /\ IF enabled[f] # v
       THEN /\ enabled' = [enabled EXCEPT ![f] = v]
            /\ pc' = [pc EXCEPT ![a] = "handler"]
            /\ arg' = [arg EXCEPT ![a] = f]
       ELSE UNCHANGED <<enabled, pc, arg>>
    /\ UNCHANGED <<cfgvars, failures, latency, avail, priority, index, last,
                   mu, seen, ret, rvars, hvars, tvars, kvars>>

\* onStatusChanged, line 356: p.mu.Lock()
Lock(a) ==
    /\ pc[a] = "handler"
    /\ canLock
    /\ mu' = [mu EXCEPT !.writer = a]
    /\ pc' = [pc EXCEPT ![a] = "locked"]
    /\ UNCHANGED <<cfgvars, enabled, failures, latency, avail, priority, index, last,
                   arg, seen, ret, ops, rvars, hvars, tvars, kvars>>

\* onStatusChanged, lines 357-378, on the flags as they are now, and the
\* deferred p.mu.Unlock()
RunHandler(a) ==
    /\ pc[a] = "locked"
    /\ LET st == handlers(St, arg[a])
       IN  /\ avail' = st.avail
           /\ priority' = st.priority
    /\ mu' = [mu EXCEPT !.writer = Nil]
    /\ pc' = [pc EXCEPT ![a] = "idle"]
    /\ arg' = [arg EXCEPT ![a] = Nil]
    /\ UNCHANGED <<cfgvars, enabled, failures, latency, index, last,
                   seen, ret, ops, rvars, hvars, tvars, kvars>>

ConcNext ==
    \/ \E t \in Pickers : RLock(t)
    \/ \E t \in Pickers : TestAvail(t)
    \/ \E t \in Pickers, dstAddr \in GroupDsts : CallNext(t, dstAddr)
    \/ \E t \in Pickers : RUnlock(t)
    \/ \E a \in Recorders \cup SeqToSet(fwdrs), f \in SeqToSet(fwdrs), v \in BOOLEAN :
          SetEnabled(a, f, v)
    \/ \E a \in Recorders \cup SeqToSet(fwdrs) : Lock(a)
    \/ \E a \in Recorders \cup SeqToSet(fwdrs) : RunHandler(a)

SpecConc == ConcInit /\ [][ConcNext]_vars

(***************************************************************************)
(* The check loops of a group: Check starts one loop for each forwarder of *)
(* a group of more than one; a step is one pass of the loop of a forwarder.*)
(* Sleeps are counted in check intervals.                                  *)
(***************************************************************************)
MaxWait == 16

CheckGroupConfigs ==
    { GroupConfig(<<Fwd("A", 2), Fwd("B", 1)>>, "ha", 1, 2, <<>>, <<>>, Index0),
      GroupConfig(<<Fwd("A", 1), Fwd("B", 1)>>, "rr", 2, 2, <<>>, <<>>, Index0),
      GroupConfig(<<Fwd("A", 2), Fwd("B", 1)>>, "ha", 1, 0, <<>>, <<>>, Index0),
      GroupConfig(<<Fwd("A", 1), Fwd("B", 1)>>, "rr", 2, 1, <<>>, <<>>, Index0) }

\* Proxy.Check: the loops start with wait 0
CheckInit ==
    /\ \E c \in CheckGroupConfigs : NewGroup(c)
    /\ Len(fwdrs) > 1
    /\ NoRouter /\ NoHistory /\ NoParse /\ NoActivity
    /\ checkDisabledOnly \in BOOLEAN
    /\ wait = [f \in SeqToSet(fwdrs) |-> 0]
    /\ passes = [f \in SeqToSet(fwdrs) |-> 0]
    /\ probed = [f \in SeqToSet(fwdrs) |-> FALSE]
    /\ slept = [f \in SeqToSet(fwdrs) |-> 0]

\* the wait doubled before the floor of 1 is applied
backoff_DoubleThenFloor(w, ok) ==
    IF ok THEN 1
    ELSE LET w2 == (w * 2) % 256
             w3 == IF w2 = 0 THEN 1 ELSE w2
         IN  IF w3 > MaxWait THEN MaxWait ELSE w3

\* check, lines 409-420: the wait after a probe, in its 8 bits
backoff(w, ok) ==
    IF ok THEN 1
    ELSE LET w1 == IF w = 0 THEN 1 ELSE w
             w2 == (w1 * 2) % 256
         IN  IF w2 > MaxWait THEN MaxWait ELSE w2

\* one pass of the loop of check(f), lines 396-421: the sleep, the two tests
\* that skip the probe, the probe and the new wait
CheckPass(f, outcome, readTime) ==
    /\ slept' = [slept EXCEPT ![f] = wait[f]]
    /\ passes' = [passes EXCEPT ![f] = IF @ < 2 THEN @ + 1 ELSE @]
    /\ IF wait[f] > 0 /\ pri[f] < priority
       THEN UNCHANGED <<enabled, failures, latency, avail, priority, wait, probed>>
       ELSE IF enabled[f] /\ checkDisabledOnly
       THEN UNCHANGED <<enabled, failures, latency, avail, priority, wait, probed>>
       ELSE LET r == checkWebSite(St, f, outcome, readTime)
            IN  /\ SetSt(r.st)
                /\ probed' = [probed EXCEPT ![f] = TRUE]
                /\ wait' = [wait EXCEPT ![f] = backoff(@, r.ret)]
    /\ UNCHANGED <<cfgvars, index, last, checkDisabledOnly, rvars, hvars, tvars, cvars>>

CheckNext ==
    \/ \E f \in SeqToSet(fwdrs), outcome \in Outcomes, readTime \in ReadTimes :
          CheckPass(f, outcome, readTime)
    \/ \E dialer \in SeqToSet(fwdrs) \cup {Reject}, success \in BOOLEAN : Record(dialer, success)

SpecCheck == CheckInit /\ [][CheckNext]_vars

(***************************************************************************)
(* The check loops under fair scheduling: every goroutine started by Check *)
(* keeps running, so the pass of each loop is taken again and again.  The  *)
(* check site answers "HTTP" in time through the forwarders of Up, and     *)
(* anything through the others.                                            *)
(***************************************************************************)
Up == {"B"}

LiveInit == CheckInit /\ checkTimeout = 2

LiveNext ==
    \/ \E f \in SeqToSet(fwdrs) \ Up, outcome \in Outcomes, readTime \in ReadTimes :
          CheckPass(f, outcome, readTime)
    \/ \E f \in SeqToSet(fwdrs) \cap Up, readTime \in ReadTimes :
          CheckPass(f, "HTTP", readTime)
    \/ \E dialer \in SeqToSet(fwdrs) \cup {Reject}, success \in BOOLEAN : Record(dialer, success)

Fairness ==
    /\ WF_vars(\E outcome \in Outcomes, readTime \in ReadTimes : CheckPass("A", outcome, readTime))
    /\ WF_vars(\E readTime \in ReadTimes : CheckPass("B", "HTTP", readTime))

SpecLive == LiveInit /\ [][LiveNext]_vars /\ Fairness

(***************************************************************************)
(* Properties of a group                                                   *)
(***************************************************************************)
Fwdrs == SeqToSet(fwdrs)

Enabled == {f \in Fwdrs : enabled[f]}

\* C2: every forwarder in avail is one of the group's forwarders, is enabled,
\* and has a priority of at least the active priority.
C2_AvailEnabledAtTier ==
    \A i \in 1..Len(avail) :
        avail[i] \in Fwdrs /\ enabled[avail[i]] /\ pri[avail[i]] >= priority

\* a lower tier is active: the forwarders above it are disabled
C2_LowerTierActive ==
    /\ avail # <<>>
    /\ \E f \in Fwdrs : ~enabled[f] /\ pri[f] > priority

\* C3: with no forwarder enabled avail is empty and the active priority is 0;
\* otherwise the active priority is the highest priority among the enabled
\* forwarders and avail holds exactly the enabled forwarders of that priority,
\* each once.
C3_AvailIsTopEnabledTier ==
    IF Enabled = {} THEN avail = <<>> /\ priority = 0
    ELSE /\ avail # <<>>
         /\ priority \in {pri[f] : f \in Enabled}
         /\ \A f \in Enabled : pri[f] <= priority
         /\ SeqToSet(avail) = {f \in Enabled : pri[f] = priority}
         /\ Len(avail) = Cardinality(SeqToSet(avail))

\* every forwarder of a group with a tier above 0 is disabled
C3_AllDisabled ==
    /\ Len(fwdrs) > 1
    /\ Enabled = {}
    /\ \E f \in Fwdrs : pri[f] > 0

\* the last call was NextDialer
Picked == last.op = "NextDialer"

\* no window of forwardTime contains the instant although there are some
OutsideForwardTime(now) ==
    Len(forwardTime) > 0 /\ \A i \in 1..Len(forwardTime) : ~Contains(forwardTime[i], now)

InsideRejectTime(now) == \E i \in 1..Len(rejectTime) : Contains(rejectTime[i], now)

\* C4: NextDialer returns the reject forwarder if and only if forwardTime is
\* non-empty and none of its windows contains the instant, or some window of
\* rejectTime contains it; otherwise it returns one of the group's forwarders.
C4_RejectIffWindows ==
    Picked =>
        /\ last.ret = Reject <=> (OutsideForwardTime(last.now) \/ InsideRejectTime(last.now))
        /\ last.ret # Reject => last.ret \in Fwdrs

\* rejected inside a reject window that lies inside a forward window
C4_RejectedInsideForwardTime ==
    /\ Picked
    /\ last.ret = Reject
    /\ Len(forwardTime) > 0
    /\ ~OutsideForwardTime(last.now)
    /\ InsideRejectTime(last.now)

\* the forwarders of the forward list, whose maxFailures is the configured one
Configured == Fwdrs \ {Direct}

\* C5: a forwarder is enabled exactly when its failure count is below its
\* maxFailures.
C5_EnabledIffBelowMax ==
    \A f \in Configured : enabled[f] <=> failures[f] < maxFailures[f]

\* C5 as amended: an enabled forwarder has a failure count below its maxFailures
C5_EnabledImpliesBelowMax ==
    \A f \in Configured : enabled[f] => failures[f] < maxFailures[f]

\* one forwarder is disabled with no failure counted, another is enabled with
\* failures counted
C5_DisabledWithoutFailures ==
    \E f, g \in Configured :
        /\ ~enabled[f] /\ failures[f] = 0
        /\ enabled[g] /\ failures[g] > 0

\* C6: under "ha", when the windows allow and a forwarder is enabled, the pick
\* is an enabled forwarder of the highest priority among avail and among the
\* enabled forwarders.
C6_HAPicksTopPriority ==
    (Picked /\ strategy = "ha" /\ allowedAt(last.now) /\ Enabled # {}) =>
        /\ last.ret \in Enabled
        /\ \A f \in Enabled \cup SeqToSet(avail) : pri[f] <= pri[last.ret]

\* the pick fell to B after A, of the higher priority, was disabled by
\* maxFailures failures
C6_FailedOverToLowerTier ==
    /\ Picked /\ strategy = "ha"
    /\ \E f \in Fwdrs :
          /\ ~enabled[f] /\ failures[f] = maxFailures[f]
          /\ pri[f] > pri[last.ret]
    /\ last.ret \in Enabled

\* the last call was a pick by round robin over avail
PickedRR(l) ==
    /\ l.op = "NextDialer"
    /\ strategy \notin {"ha", "lha", "dh"}
    /\ l.ret # Reject
    /\ avail # <<>>

posInAvail(f) == IndexByte(avail, f) + 1

U32Max == U32(Half - 1, Half - 1)

\* C7: under round robin each pick returns avail[(c+1) mod n], c the counter
\* before the call, and two successive picks over the same avail return
\* cyclically consecutive elements, for every value of the counter.
C7_SuccessivePicksConsecutive ==
    [][(PickedRR(last) /\ PickedRR(last')) =>
          /\ last'.ret = avail[U32Mod(U32Inc(last'.c), Len(avail)) + 1]
          /\ posInAvail(last'.ret) = (posInAvail(last.ret) % Len(avail)) + 1]_vars

\* C7 as amended: the pick is avail[((c+1) mod 2^32) mod n], and successive
\* picks are cyclically consecutive except for the pick on which the counter
\* wraps from 2^32-1 to 0 (where they are only when n divides 2^32)
C7_ConsecutiveUnlessWrap ==
    [][(PickedRR(last) /\ PickedRR(last')) =>
          /\ last'.ret = avail[U32Mod(U32Inc(last'.c), Len(avail)) + 1]
          /\ (last'.c # U32Max \/ Len(avail) \in {1, 2}) =>
                posInAvail(last'.ret) = (posInAvail(last.ret) % Len(avail)) + 1]_vars

\* a pick over three forwarders on which the counter wrapped
C7_PickedOnWrap ==
    /\ PickedRR(last)
    /\ last.c = U32Max
    /\ Len(avail) = 3

\* avail as constructed: every forwarder enabled
AvailAsConstructed ==
    filterSeq(fwdrs, {f \in Fwdrs : pri[f] >= pri[fwdrs[1]]})

\* C8: under "dh" the pick depends only on dstAddr and on the forwarders in
\* avail, not on their order: with the membership avail was constructed with,
\* the pick is the one made then; and a single available forwarder is always
\* the pick.
C8_DHSameMembershipSamePick ==
    (Picked /\ strategy = "dh" /\ last.ret # Reject /\ avail # <<>>) =>
        /\ SeqToSet(avail) = SeqToSet(AvailAsConstructed) =>
              last.ret = AvailAsConstructed[U32Mod(Sum32a(last.dst), Len(avail)) + 1]
        /\ Len(avail) = 1 => last.ret = avail[1]

\* C9: when the windows allow and avail is empty the pick is
\* fwdrs[(c+1) mod len(fwdrs)] with the counter incremented, whatever the
\* strategy; every pick returns the reject forwarder or one of fwdrs.
C9_EmergencyRoundRobin ==
    /\ Len(fwdrs) >= 1
    /\ Picked => last.ret \in Fwdrs \cup {Reject}
    /\ (Picked /\ allowedAt(last.now) /\ avail = <<>>) =>
          /\ last.ret = fwdrs[U32Mod(U32Inc(last.c), Len(fwdrs)) + 1]
          /\ index = U32Inc(last.c)

\* a pick among the disabled forwarders of a group that does not use round robin
C9_PickedWhileAllDisabled ==
    /\ Picked
    /\ strategy \in {"ha", "lha", "dh"}
    /\ Enabled = {}
    /\ last.ret \in Fwdrs

(***************************************************************************)
(* Properties of the router                                                *)
(***************************************************************************)
\* the dot-suffixes of host: host itself and what follows each of its dots
DotSuffixes(host) ==
    {host} \cup {Slice(host, i, Len(host)) : i \in {j \in 1..Len(host) : host[j] = "."}}

\* the group of the longest dot-suffix of the lowercased host that is a key of
\* domainMap, the default group when none is
LongestSuffixGroup(host) ==
    LET keys == DotSuffixes(ToLower(host)) \cap DOMAIN domainMap
    IN  IF keys = {} THEN DefaultGroup
        ELSE domainMap[CHOOSE k \in keys : \A k2 \in keys : Len(k2) <= Len(k)]

\* the last call was nextProxy on a well-formed dstAddr that no ip rule and no
\* cidr rule matched
RoutedByDomain ==
    /\ rlast.op = "nextProxy"
    /\ ~SplitHostPort(rlast.dst).err
    /\ LET ip == ParseIP(SplitHostPort(rlast.dst).host)
       IN  \/ ip = NilIP
           \/ /\ IPString(ip) \notin DOMAIN ipMap
              /\ \A e \in cidrMap : ~CIDRContains(e.cidr, ip)

\* C1: a destination whose host is not matched as an IP is routed to the group
\* of the longest dot-suffix of its lowercased host that is a key of domainMap,
\* and to the default group when no suffix is a key.
C1_LongestSuffixWins ==
    RoutedByDomain => rlast.ret = LongestSuffixGroup(SplitHostPort(rlast.dst).host)

\* what the suffix loop does: the shortest dot-suffix that is a key wins
ShortestSuffixGroup(host) ==
    LET keys == DotSuffixes(ToLower(host)) \cap DOMAIN domainMap
    IN  IF keys = {} THEN DefaultGroup
        ELSE domainMap[CHOOSE k \in keys : \A k2 \in keys : Len(k) <= Len(k2)]

C1_ShortestSuffixWins ==
    RoutedByDomain => rlast.ret = ShortestSuffixGroup(SplitHostPort(rlast.dst).host)

\* the last call was nextProxy on a dstAddr whose host is a numeric IP
RoutedIP == rlast.op = "nextProxy" /\ ~SplitHostPort(rlast.dst).err
            /\ ParseIP(SplitHostPort(rlast.dst).host) # NilIP

RoutedHostIP == ParseIP(SplitHostPort(rlast.dst).host)

ContainingCIDRs(ip) == {e \in cidrMap : CIDRContains(e.cidr, ip)}

\* C10: a numeric IP goes to the group of its ipMap entry when there is one,
\* else to the group of some CIDR containing it when there is one, else to the
\* default group unless a domain key matches the literal; a dstAddr that does
\* not split into host and port goes to the default group.
C10_IPThenCIDRThenDefault ==
    /\ RoutedIP =>
          IF IPString(RoutedHostIP) \in DOMAIN ipMap
          THEN rlast.ret = ipMap[IPString(RoutedHostIP)]
          ELSE IF ContainingCIDRs(RoutedHostIP) # {}
          THEN rlast.ret \in {e.proxy : e \in ContainingCIDRs(RoutedHostIP)}
          ELSE (DotSuffixes(ToLower(SplitHostPort(rlast.dst).host)) \cap DOMAIN domainMap = {})
                  => rlast.ret = DefaultGroup
    /\ (rlast.op = "nextProxy" /\ SplitHostPort(rlast.dst).err) => rlast.ret = DefaultGroup

\* an IP routed by its ipMap entry although a CIDR of another group contains it
C10_IPEntryOverCIDR ==
    /\ RoutedIP
    /\ IPString(RoutedHostIP) \in DOMAIN ipMap
    /\ \E e \in ContainingCIDRs(RoutedHostIP) : e.proxy # ipMap[IPString(RoutedHostIP)]
    /\ rlast.ret = ipMap[IPString(RoutedHostIP)]

\* dstAddr of a host, port 80
withPort(host) == host \o <<":", "8", "0">>

\* the last call was AddDomainIP with a non-empty ip and a domain one of whose
\* dot-suffixes is a key of domainMap
LearnedIP ==
    /\ rlast.op = "AddDomainIP"
    /\ rlast.ip # <<>>
    /\ DotSuffixes(ToLower(rlast.domain)) \cap DOMAIN domainMap # {}

\* C11: after AddDomainIP(domain, ip) with a non-empty ip and a domain one of
\* whose dot-suffixes is a key of domainMap, routing ip:port gives the same
\* groups as routing domain:port.
C11_LearnedIPRoutesAsDomain ==
    LearnedIP => nextProxy(withPort(rlast.ip)) = nextProxy(withPort(rlast.domain))

\* the second half of C11: when no suffix of domain is a key, or ip is empty,
\* AddDomainIP leaves ipMap unchanged
C11_NoKeyNoChange ==
    [][(rlast'.op = "AddDomainIP" /\ ~LearnedIP') => ipMap' = ipMap]_vars

\* C16: Record on a group with a dialer that is not one of the group's
\* forwarders (the reject forwarder) changes no failure counter and no enabled
\* flag.
C16_RecordOnOutsiderChangesNothing ==
    [][\A success \in BOOLEAN :
          (Reject \notin Fwdrs /\ Record(Reject, success))
             => (failures' = failures /\ enabled' = enabled)]_vars

\* what holds of Record: only the dialer it is given changes
C16_RecordChangesItsDialerOnly ==
    [][\A dialer \in Fwdrs \cup {Reject}, success \in BOOLEAN :
          Record(dialer, success)
             => \A f \in DOMAIN enabled \ {dialer} :
                   failures'[f] = failures[f] /\ enabled'[f] = enabled[f]]_vars

\* the strategies newProxy knows
Strategies == {"rr", "ha", "lha", "dh"}

\* C17: a group made from an empty forward list has the direct forwarder as
\* its only forwarder and picks by round robin whatever strategy was
\* configured; a group configured with an unknown strategy picks by round
\* robin too: the pick is element (c+1) mod n and the counter is incremented.
C17_DirectAndUnknownUseRoundRobin ==
    /\ Direct \in Fwdrs => fwdrs = <<Direct>>
    /\ (Picked /\ last.ret # Reject /\ (Direct \in Fwdrs \/ configured \notin Strategies)) =>
          /\ index = U32Inc(last.c)
          /\ last.ret = IF avail # <<>>
                        THEN avail[U32Mod(U32Inc(last.c), Len(avail)) + 1]
                        ELSE fwdrs[U32Mod(U32Inc(last.c), Len(fwdrs)) + 1]

\* a pick of the direct forwarder in a group configured with "ha"
C17_DirectPickedUnderHA ==
    /\ Picked
    /\ configured = "ha"
    /\ last.ret = Direct
    /\ index = U32Inc(last.c)

(***************************************************************************)
(* Properties of the history of a group                                    *)
(***************************************************************************)
\* the number of calls of the callback for f in a list of calls
Calls(log, f) == Cardinality({i \in 1..Len(log) : log[i] = f})

\* C12: an operation calls the group's callback for a forwarder exactly once
\* when it changes the forwarder's enabled flag, and not at all when it does
\* not, so the callbacks for a forwarder are as many as the changes of its flag.
C12_OneCallbackPerFlip ==
    [][\A f \in Fwdrs :
          Calls(notified', f) = IF enabled'[f] # enabled[f] THEN 1 ELSE 0]_vars

\* the last operation changed a flag and called the callback
C12_CallbackFired == notified # <<>>

\* C13: a Record(f, false) on an enabled forwarder disables it exactly when it
\* is the maxFailures-th failure recorded in a row since the last recorded
\* success or since the forwarder was last enabled.
C13_DisabledOnMaxthOfStreak ==
    [][\A f \in Configured :
          (streak'[f] = streak[f] + 1 /\ enabled[f])
             => (~enabled'[f] <=> streak'[f] = maxFailures[f])]_vars

\* C13 amended: a Record(f, false) on an enabled forwarder disables it exactly
\* when it is the maxFailures-th failure recorded in a row since the last
\* recorded success or the last successful probe of f.
C13_DisabledOnMaxthOfRun ==
    [][\A f \in Configured :
          (run'[f] = run[f] + 1 /\ enabled[f])
             => (~enabled'[f] <=> run'[f] = maxFailures[f])]_vars

\* a forwarder disabled by its maxFailures-th failure since a successful probe,
\* with more failures recorded in a row than that
C13_DisabledAfterProbeReset ==
    \E f \in Configured :
        /\ ~enabled[f]
        /\ notified = <<f>>
        /\ run[f] = maxFailures[f]
        /\ streak[f] > run[f]

(***************************************************************************)
(* Properties of the time windows                                          *)
(***************************************************************************)
\* the day of the week of an instant, Monday = 1 .. Sunday = 7
DayOf(time) == IF time.Weekday = 0 THEN 7 ELSE time.Weekday

MinuteOfDay(h, m) == h * 60 + m

Asked == twNow # NoInstant

\* C14: Contains(t) is true exactly when the weekday of t (Monday = 1 ..
\* Sunday = 7) is in [FromDay, ToDay] and its minute of the day is in
\* [FromHour*60+FromMin, ToHour*60+ToMin]; MON 00:00 00:00 contains only
\* Monday 00:00 and 1-7 00:00 23:59 contains every instant.
C14_ContainsIffInDayAndMinuteRange ==
    Asked =>
      /\ twRet <=>
            /\ DayOf(twNow) \in tw.w.FromDay..tw.w.ToDay
            /\ MinuteOfDay(twNow.Hour, twNow.Minute) \in
                  MinuteOfDay(tw.w.FromHour, tw.w.FromMin)..MinuteOfDay(tw.w.ToHour, tw.w.ToMin)
      /\ tw.w = TimeWindow(1, 1, 0, 0, 0, 0) => (twRet <=> twNow = Instant(1, 0, 0))
      /\ tw.w = TimeWindow(1, 7, 0, 0, 23, 59) => twRet

\* an instant of the last hour of a window, inside it by its minute
C14_InsideByMinute ==
    /\ Asked /\ twRet
    /\ twNow.Hour = tw.w.ToHour /\ twNow.Hour > tw.w.FromHour
    /\ twNow.Minute > 0 /\ twNow.Minute < tw.w.ToMin

\* C15: every window that Parse accepts has FromDay <= ToDay, both in 1..7,
\* hours in 0..23 and minutes in 0..59, so a range N-M with N > M is rejected.
C15_ParsedWindowWellFormed ==
    tw.ok =>
      /\ tw.w.FromDay <= tw.w.ToDay
      /\ tw.w.FromDay \in 1..7 /\ tw.w.ToDay \in 1..7
      /\ tw.w.FromHour \in 0..23 /\ tw.w.ToHour \in 0..23
      /\ tw.w.FromMin \in 0..59 /\ tw.w.ToMin \in 0..59

\* what holds of the windows Parse accepts: the fields are in their ranges
C15_ParsedFieldsInRange ==
    tw.ok =>
      /\ tw.w.FromDay \in 1..7 /\ tw.w.ToDay \in 1..7
      /\ tw.w.FromHour \in 0..23 /\ tw.w.ToHour \in 0..23
      /\ tw.w.FromMin \in 0..59 /\ tw.w.ToMin \in 0..59

(***************************************************************************)
(* Properties of the goroutines on a group                                 *)
(***************************************************************************)
\* C18: a pick sees one avail: the list indexed by p.next is the list of the
\* emptiness test, no pick indexes an empty avail, and the forwarder returned
\* was in the avail of the test (or is the pick among fwdrs when it was empty).
C18_PickSeesOneAvail ==
    \A t \in DOMAIN seen :
        /\ pc[t] # "panic"
        /\ pc[t] = "next" => (avail = seen[t] /\ avail # <<>>)
        /\ pc[t] = "unlock" =>
              /\ avail = seen[t]
              /\ ret[t] \in (IF seen[t] = <<>> THEN Fwdrs ELSE SeqToSet(seen[t]))

\* a pick between its emptiness test and p.next while a status change waits
\* for the lock
C18_PickBeforeWaitingHandler ==
    \E t \in DOMAIN seen, a \in DOMAIN arg :
        /\ pc[t] = "next"
        /\ pc[a] = "handler"
        /\ arg[a] \in SeqToSet(avail)

\* no handler is pending or running
Quiescent == \A a \in DOMAIN arg : pc[a] = "idle"

\* C19: avail never holds the same forwarder twice, and once all the handlers
\* have returned it holds no disabled forwarder.
C19_NoDuplicateNoDisabled ==
    /\ \A i, j \in 1..Len(avail) : avail[i] = avail[j] => i = j
    /\ Quiescent => \A i \in 1..Len(avail) : enabled[avail[i]]

(***************************************************************************)
(* Properties of the check loops                                           *)
(***************************************************************************)
\* C20: the first pass of the loop of every forwarder runs the probe,
\* whatever its priority and whatever CheckDisabledOnly, and every pass after
\* the first starts by sleeping at least one check interval.
C20_FirstPassProbesLaterPassesSleep ==
    \A f \in DOMAIN wait :
        /\ passes[f] >= 1 => probed[f]
        /\ passes[f] >= 2 => slept[f] >= 1

\* what holds of the loops: a pass that ran the probe leaves a wait of at
\* least 1, and without CheckDisabledOnly the first pass runs the probe
C20_ProbedLoopsSleep ==
    \A f \in DOMAIN wait :
        /\ probed[f] => wait[f] >= 1
        /\ (~checkDisabledOnly /\ passes[f] >= 1) => probed[f]
        /\ (~checkDisabledOnly /\ passes[f] >= 2) => slept[f] >= 1

\* the pass of the loop of f that starts in this state reaches checkWebSite:
\* neither of the two tests before it takes `continue`
ProbeRuns(f) ==
    /\ ~(wait[f] > 0 /\ pri[f] < priority)
    /\ ~(enabled[f] /\ checkDisabledOnly)

Min(a, b) == IF a < b THEN a ELSE b
Max(a, b) == IF a > b THEN a ELSE b

\* C21 as claimed: a successful probe leaves wait = 1 and a failed probe leaves
\* wait = min(16, max(1, 2 * wait_before)), so that a failure on the very first
\* pass (wait_before = 0) gives 1; wait stays in 0..16.
C21_FailureDoublesThenFloors ==
    [][\A f \in DOMAIN wait, outcome \in Outcomes, readTime \in ReadTimes :
          (ProbeRuns(f) /\ CheckPass(f, outcome, readTime)) =>
              /\ wait'[f] = IF enabled'[f] THEN 1 ELSE Min(16, Max(1, 2 * wait[f]))
              /\ wait'[f] \in 0..16]_vars

\* C21 as amended: a successful probe leaves wait = 1 and a failed probe leaves
\* wait = min(16, 2 * max(1, wait_before)): a failure on the first pass gives
\* 2, failures after a success give 2, 4, 8, 16, 16, ..., and wait stays in
\* 0..16, far from the 255 of its 8 bits.
C21_FailureFloorsThenDoubles ==
    [][\A f \in DOMAIN wait, outcome \in Outcomes, readTime \in ReadTimes :
          (ProbeRuns(f) /\ CheckPass(f, outcome, readTime)) =>
              /\ wait[f] \in {0, 1, 2, 4, 8, 16}
              /\ wait'[f] = IF enabled'[f] THEN 1 ELSE Min(16, 2 * Max(1, wait[f]))
              /\ wait'[f] \in 1..16]_vars

\* the first pass of a loop failed its probe and left wait = 2, and the loop
\* of another forwarder has reached the cap
C21_FirstFailureWaitsTwo ==
    \E f, g \in DOMAIN wait :
        /\ passes[f] = 1 /\ probed[f] /\ ~enabled[f] /\ wait[f] = 2
        /\ wait[g] = 16

(***************************************************************************)
(* Properties of the probe                                                 *)
(***************************************************************************)
\* the probe of the pass returned true: check sets wait to 1 on true and to 2
\* or more on false
ProbeReturnedTrue(f) == wait'[f] = 1

\* C22: with CheckTimeout = 0 the probe has no time bound: a probe whose dial,
\* write and read succeed and whose four bytes are "HTTP" enables the
\* forwarder and returns true whatever time it took.
C22_ZeroTimeoutHasNoBound ==
    [][\A f \in DOMAIN wait, readTime \in ReadTimes :
          (checkTimeout = 0 /\ ProbeRuns(f) /\ CheckPass(f, "HTTP", readTime)) =>
              enabled'[f] /\ ProbeReturnedTrue(f)]_vars

\* what the code does with CheckTimeout = 0: a probe that took any time at
\* all disables the forwarder and returns false
C22_ZeroTimeoutAlwaysDisables ==
    [][\A f \in DOMAIN wait, outcome \in Outcomes, readTime \in ReadTimes :
          (checkTimeout = 0 /\ readTime > 0 /\ ProbeRuns(f)
              /\ CheckPass(f, outcome, readTime)) =>
              ~enabled'[f] /\ ~ProbeReturnedTrue(f)]_vars

\* C23: a probe ends in one of two ways.  It returns true, having called
\* Enable (the forwarder is enabled and its failure count is 0), exactly when
\* the dial, the write and the read succeeded, the four bytes are "HTTP" and
\* the time it took is within the timeout; in every other case it has called
\* Disable (the forwarder is disabled, its failure count untouched) and
\* returns false.  The latency is set to the time the probe took when the
\* four bytes were read and are "HTTP", and is left alone otherwise.
C23_EnableAndTrueOrDisableAndFalse ==
    [][\A f \in DOMAIN wait, outcome \in Outcomes, readTime \in ReadTimes :
          (ProbeRuns(f) /\ CheckPass(f, outcome, readTime)) =>
              /\ ProbeReturnedTrue(f) <=> (outcome = "HTTP" /\ readTime <= checkTimeout)
              /\ ProbeReturnedTrue(f) => (enabled'[f] /\ failures'[f] = 0)
              /\ ~ProbeReturnedTrue(f) => (~enabled'[f] /\ failures'[f] = failures[f])
              /\ latency'[f] = IF outcome = "HTTP" THEN readTime ELSE latency[f]]_vars

\* a probe read "HTTP" too late: the forwarder has the latency of that probe
\* and is disabled, while the probe of another forwarder failed before its
\* latency was taken
C23_TimedOutWithLatency ==
    \E f, g \in DOMAIN wait :
        /\ checkTimeout > 0
        /\ probed[f] /\ latency[f] > checkTimeout /\ ~enabled[f] /\ wait[f] >= 2
        /\ probed[g] /\ latency[g] = 0 /\ ~enabled[g] /\ wait[g] >= 2

(***************************************************************************)
(* Recovery                                                                *)
(***************************************************************************)
\* C24, second half: a forwarder whose priority is below the active priority
\* of the group is not probed on any pass of its loop after the first: such
\* a pass does not reach checkWebSite and leaves the flags, the latencies
\* and the waits alone.
C24_LowerTierProbedOnceOnly ==
    [][\A f \in DOMAIN wait, outcome \in Outcomes, readTime \in ReadTimes :
          (passes[f] >= 1 /\ pri[f] < priority /\ CheckPass(f, outcome, readTime)) =>
              (~ProbeRuns(f) /\ UNCHANGED <<enabled, latency, wait>>)]_vars

\* what holds of the second half: without CheckDisabledOnly no pass after the
\* first probes a forwarder below the active priority
C24_LowerTierProbedOnceOnlyWhenCheckingAll ==
    [][\A f \in DOMAIN wait, outcome \in Outcomes, readTime \in ReadTimes :
          (~checkDisabledOnly /\ passes[f] >= 1 /\ pri[f] < priority
              /\ CheckPass(f, outcome, readTime)) =>
              (~ProbeRuns(f) /\ UNCHANGED <<enabled, latency, wait>>)]_vars

\* C24, first half: if from some point on the priority of f is at least the
\* active priority, and the probes through f succeed, then f is enabled
\* again and again, is then in avail, and avail then holds enabled
\* forwarders only (no pick takes the emergency path).
C24_RecoveryIsLive ==
    \A f \in Up :
        <>[](pri[f] >= priority) =>
            []<>(/\ enabled[f]
                 /\ f \in SeqToSet(avail)
                 /\ \A i \in 1..Len(avail) : enabled[avail[i]])
====
